---- MODULE Spec2Model ----
(***************************************************************************)
(* Model of app.py: the LanguageMapSDK (country directory, lookup by name, *)
(* map marker) and the Streamlit page script that drives it.               *)
(*                                                                         *)
(* Python strings are modelled as sequences of one-character strings, so   *)
(* that substring search, regular-expression search and f-string           *)
(* formatting are computed character by character.                         *)
(***************************************************************************)
EXTENDS Integers, Sequences, FiniteSets, TLC

(***************************************************************************)
(* Bounds of the model.                                                    *)
(***************************************************************************)
MaxEntries == 2
MaxQueryLen == 2

(***************************************************************************)
(* Characters.  QueryChars is what the user may type into the text input;  *)
(* it has a letter in both cases, a second letter, and the characters that *)
(* are special to Python's re module.                                      *)
(***************************************************************************)
QueryChars == {"d", "D", "e", ".", "*", "(", "\\"}

Digits == {"0", "1", "2", "3", "4", "5", "6", "7", "8", "9"}

\* str.lower() on one character (ASCII letters of the model's alphabet)
ToLower(c) ==
    CASE c = "D" -> "d"
      [] c = "E" -> "e"
      [] OTHER -> c

\* str.lower() on a string
Lower(s) == [i \in 1..Len(s) |-> ToLower(s[i])]

\* All strings over a character set, up to a length
RECURSIVE StringsUpTo(_, _)
StringsUpTo(chars, n) ==
    IF n = 0 THEN {<<>>}
    ELSE LET shorter == StringsUpTo(chars, n - 1)
         IN  shorter \cup {Append(s, c) : s \in shorter, c \in chars}

Queries == StringsUpTo(QueryChars, MaxQueryLen)

(***************************************************************************)
(* re.compile(pat, re.IGNORECASE), as pandas' str.contains calls it when   *)
(* regex=True (the default).  The pattern is parsed left to right into     *)
(* items, each an atom with an optional "*" repeat.  A parse failure is    *)
(* re.error.                                                               *)
(***************************************************************************)
BadPattern == [ok |-> FALSE, items |-> <<>>]

Atom(kind, ch) == [kind |-> kind, ch |-> ch, star |-> FALSE]

RECURSIVE sre_parse(_, _, _)
sre_parse(pat, i, items) ==
    IF i > Len(pat) THEN [ok |-> TRUE, items |-> items]
    ELSE LET c == pat[i] IN
      CASE c = "\\" ->
             IF i = Len(pat) THEN BadPattern          \* bad escape (end of pattern)
             ELSE LET e == pat[i + 1] IN
               CASE e = "d" -> sre_parse(pat, i + 2, Append(items, Atom("digit", e)))
                 [] e = "D" -> sre_parse(pat, i + 2, Append(items, Atom("not_digit", e)))
                 [] e \in {"e", "E"} -> BadPattern    \* bad escape \e
                 [] OTHER -> sre_parse(pat, i + 2, Append(items, Atom("literal", e)))
        [] c = "(" -> BadPattern                      \* missing ), unterminated subpattern
        [] c = "*" ->
             IF items = <<>> THEN BadPattern          \* nothing to repeat
             ELSE IF items[Len(items)].star THEN BadPattern   \* multiple repeat
             ELSE sre_parse(pat, i + 1,
                      [items EXCEPT ![Len(items)].star = TRUE])
        [] c = "." -> sre_parse(pat, i + 1, Append(items, Atom("any", c)))
        [] OTHER -> sre_parse(pat, i + 1, Append(items, Atom("literal", c)))

re_compile(pat) == sre_parse(pat, 1, <<>>)

\* one atom against one character, under re.IGNORECASE
AtomMatches(a, x) ==
    CASE a.kind = "literal" -> ToLower(x) = ToLower(a.ch)
      [] a.kind = "any" -> x # "\n"
      [] a.kind = "digit" -> x \in Digits
      [] a.kind = "not_digit" -> x \notin Digits

\* items[k..] match s starting at position pos (backtracking over "*")
RECURSIVE sre_match(_, _, _, _)
sre_match(items, k, s, pos) ==
    IF k > Len(items) THEN TRUE
    ELSE IF items[k].star
         THEN \/ sre_match(items, k + 1, s, pos)
              \/ /\ pos <= Len(s)
                 /\ AtomMatches(items[k], s[pos])
                 /\ sre_match(items, k, s, pos + 1)
         ELSE /\ pos <= Len(s)
              /\ AtomMatches(items[k], s[pos])
              /\ sre_match(items, k + 1, s, pos + 1)

\* pat.search(s) is not None
re_search(items, s) == \E pos \in 1..(Len(s) + 1) : sre_match(items, 1, s, pos)


\* Python's `needle in haystack` on strings
Contains(haystack, needle) ==
    \E i \in 0..(Len(haystack) - Len(needle)) :
        \A j \in 1..Len(needle) : haystack[i + j] = needle[j]

(***************************************************************************)
(* The reference dataset: pycountry.countries and pycountry.languages.     *)
(* An entry always has a name; official_name, latitude, longitude and      *)
(* languages are attributes an entry may or may not have: an entry is a    *)
(* record whose fields are exactly the attributes it has.                  *)
(***************************************************************************)
OptionalAttrs == {"official_name", "latitude", "longitude", "languages"}

CountryNames == {<<"D", "e">>, <<"E", "d", ".">>, <<"d", "(", "e">>}

LanguageLists == {<<>>, <<"ur">>, <<"zz">>, <<"ar", "zz">>}

Unknown == <<"U", "n", "k", "n", "o", "w", "n">>
Urdu == <<"U", "r", "d", "u">>
Arabic == <<"A", "r", "a", "b", "i", "c">>

\* pycountry.languages.get(alpha_2=code): <<language name>>, or <<>> for None
languages_get(code) ==
    CASE code = "ur" -> <<Urdu>>
      [] code = "ar" -> <<Arabic>>
      [] OTHER -> <<>>

Entry(name, attrs, langs) ==
    [a \in {"name"} \cup attrs |->
        CASE a = "name" -> name
          [] a = "official_name" -> <<"R", " ">> \o name
          [] a = "latitude" -> 30
          [] a = "longitude" -> 69
          [] a = "languages" -> langs]

Entries ==
    {Entry(n, a, l) : n \in CountryNames, a \in SUBSET OptionalAttrs, l \in LanguageLists}

\* A smaller table: an entry has all optional attributes or none
PlainEntries ==
    {Entry(n, {}, <<>>) : n \in CountryNames}
      \cup {Entry(n, OptionalAttrs, l) : n \in CountryNames, l \in {<<"ur">>, <<"zz">>}}

\* ISO country names are unique: no two entries of a dataset share a name
DistinctNames(ds) == \A i, j \in 1..Len(ds) : ds[i].name = ds[j].name => i = j

\* ds is a dataset of at most n of the given entries
IsDataset(ds, entries, n) ==
    /\ \E len \in 0..n : ds \in [1..len -> entries]
    /\ DistinctNames(ds)

hasattr(country, attr) == attr \in DOMAIN country

getattr(country, attr, default) ==
    IF hasattr(country, attr) THEN country[attr] ELSE default

(***************************************************************************)
(* LanguageMapSDK._load_country_data: one pass over the dataset.  The body *)
(* of the try either appends a record or raises; a raise is swallowed by   *)
(* the bare except and the loop continues with the next entry.             *)
(***************************************************************************)
\* the conditional expression that computes lang; raises = TRUE when it throws
ResolveLanguage(country) ==
    IF hasattr(country, "languages")
    THEN IF country.languages = <<>>
         THEN [raises |-> TRUE, lang |-> <<>>]                 \* IndexError
         ELSE LET found == languages_get(country.languages[1]) IN
              IF found = <<>>
              THEN [raises |-> TRUE, lang |-> <<>>]            \* None.name
              ELSE [raises |-> FALSE, lang |-> found[1]]
    ELSE [raises |-> FALSE, lang |-> Unknown]

\* CountryRecord with both coordinates taken from the latitude attribute
CountryRecord_lat_twice(country, lang) ==
    [name |-> country.name,
     official_name |-> getattr(country, "official_name", country.name),
     latitude |-> getattr(country, "latitude", 0),
     longitude |-> getattr(country, "latitude", 0),
     language |-> lang]

CountryRecord(country, lang) ==
    [name |-> country.name,
     official_name |-> getattr(country, "official_name", country.name),
     latitude |-> getattr(country, "latitude", 0),
     longitude |-> getattr(country, "longitude", 0),
     language |-> lang]

\* LoadFrom with countries.insert(0, ...) in place of countries.append(...)
RECURSIVE LoadFrom_insert(_, _, _)
LoadFrom_insert(ds, i, countries) ==
    IF i > Len(ds) THEN countries
    ELSE LET res == ResolveLanguage(ds[i]) IN
         IF res.raises
         THEN LoadFrom_insert(ds, i + 1, countries)
         ELSE LoadFrom_insert(ds, i + 1, <<CountryRecord(ds[i], res.lang)>> \o countries)

RECURSIVE LoadFrom(_, _, _)
LoadFrom(ds, i, countries) ==
    IF i > Len(ds) THEN countries
    ELSE LET res == ResolveLanguage(ds[i]) IN
         IF res.raises
         THEN LoadFrom(ds, i + 1, countries)                   \* except: continue
         ELSE LoadFrom(ds, i + 1, Append(countries, CountryRecord(ds[i], res.lang)))

load_country_data(ds) == LoadFrom(ds, 1, <<>>)

(***************************************************************************)
(* Results of a call: a returned value (kind "dict", "Map" or "None") or a *)
(* raised exception (kind "raise").  value holds the returned object, if   *)
(* any, as a sequence of length 0 or 1.                                    *)
(***************************************************************************)
Return(kind, v) == [kind |-> kind, value |-> <<v>>, exc |-> ""]
ReturnNone == [kind |-> "None", value |-> <<>>, exc |-> ""]
Raise(exc) == [kind |-> "raise", value |-> <<>>, exc |-> exc]

\* get_country_info with iloc[-1] in place of iloc[0]
get_country_info_last(country_data, country_name) ==
    IF country_data = <<>>
    THEN Raise("KeyError")
    ELSE LET pat == re_compile(country_name) IN
         IF ~pat.ok THEN Raise("re.error")
         ELSE LET country == SelectSeq(country_data,
                                       LAMBDA r : re_search(pat.items, r.name))
              IN  IF country # <<>> THEN Return("dict", country[Len(country)])
                  ELSE ReturnNone

\* LanguageMapSDK.get_country_info
get_country_info(country_data, country_name) ==
    IF country_data = <<>>
    THEN Raise("KeyError")               \* pd.DataFrame([]) has no 'name' column
    ELSE LET pat == re_compile(country_name) IN
         IF ~pat.ok THEN Raise("re.error")
         ELSE LET country == SelectSeq(country_data,
                                       LAMBDA r : re_search(pat.items, r.name))
              IN  IF country # <<>> THEN Return("dict", country[1])
                  ELSE ReturnNone

\* the f-string of the marker popup
PopupText(country_info) ==
    country_info.name
      \o <<" ", "-", " ", "L", "a", "n", "g", "u", "a", "g", "e", ":", " ">>
      \o country_info.language

\* Marker with the coordinates in the order [longitude, latitude]
Marker_lon_lat(country_info) ==
    [location |-> <<country_info.longitude, country_info.latitude>>,
     popup |-> PopupText(country_info),
     icon |-> "red"]

\* folium.Marker([lat, lon], popup=..., icon=folium.Icon(color='red'))
Marker(country_info) ==
    [location |-> <<country_info.latitude, country_info.longitude>>,
     popup |-> PopupText(country_info),
     icon |-> "red"]

\* LanguageMapSDK.create_country_map
create_country_map(country_data, country_name) ==
    LET country_info == get_country_info(country_data, country_name) IN
    IF country_info.kind = "raise" THEN country_info
    ELSE IF country_info.kind = "dict"
         THEN LET info == country_info.value[1] IN
              Return("Map", [location |-> <<info.latitude, info.longitude>>,
                             zoom_start |-> 6,
                             markers |-> <<Marker(info)>>])
         ELSE ReturnNone


(***************************************************************************)
(* State.                                                                  *)
(***************************************************************************)
VARIABLES
    dataset,         \* pycountry.countries, fixed for the life of the process
    loaded,          \* TRUE once `sdk = LanguageMapSDK()` has run
    country_data,    \* sdk.country_data, the rows of the DataFrame in order
    call,            \* the last call made on sdk: method, argument, outcome
    gemini_api_key,  \* TRUE when GEMINI_API_KEY is set in the environment
    pc,              \* position of the page script
    country_input,   \* value of the "Enter a country or city" text input
    country_info,    \* the script's name country_info: <<>> while unassigned
    target_language, \* value of the "Translate to:" selectbox, "" if not drawn
    ui,              \* the elements the run has put on the page
    exception        \* the exception that ended the run, "" if none

vars == <<dataset, loaded, country_data, call, gemini_api_key, pc,
          country_input, country_info, target_language, ui, exception>>

sdkVars == <<loaded, country_data, call>>
pageVars == <<pc, country_input, country_info, target_language, ui, exception>>

NoCall == [op |-> "none", arg |-> <<>>, result |-> ReturnNone]

\* the page script's namespace and output at the start of a run
FreshRun ==
    /\ country_input = <<>>
    /\ country_info = <<>>
    /\ target_language = ""
    /\ ui = {}
    /\ exception = ""

(***************************************************************************)
(* The SDK on its own: construction, then any sequence of calls.           *)
(***************************************************************************)
InitWith(entries) ==
    /\ IsDataset(dataset, entries, MaxEntries)
    /\ loaded = FALSE
    /\ country_data = <<>>
    /\ call = NoCall
    /\ gemini_api_key = TRUE
    /\ pc = "idle"
    /\ FreshRun

Init == InitWith(PlainEntries)

\* sdk = LanguageMapSDK()
Construct ==
    /\ pc = "idle"
    /\ ~loaded
    /\ country_data' = load_country_data(dataset)
    /\ loaded' = TRUE
    /\ UNCHANGED <<dataset, call, gemini_api_key, pageVars>>

\* get_country_info that filters sdk.country_data in place
GetCountryInfo_in_place ==
    \E country_name \in Queries :
        /\ pc = "idle"
        /\ loaded
        /\ call = NoCall
        /\ LET result == get_country_info(country_data, country_name) IN
           /\ call' = [op |-> "get_country_info", arg |-> country_name,
                       result |-> result]
           /\ country_data' = IF result.kind = "raise" THEN country_data
                               ELSE SelectSeq(country_data,
                                        LAMBDA r : re_search(re_compile(country_name).items, r.name))
        /\ UNCHANGED <<dataset, loaded, gemini_api_key, pageVars>>

\* sdk.get_country_info(country_name)
GetCountryInfo ==
    \E country_name \in Queries :
        /\ pc = "idle"
        /\ loaded
        /\ call = NoCall
        /\ call' = [op |-> "get_country_info", arg |-> country_name,
                    result |-> get_country_info(country_data, country_name)]
        /\ UNCHANGED <<dataset, loaded, country_data, gemini_api_key, pageVars>>

\* sdk.create_country_map(country_name)
CreateCountryMap ==
    \E country_name \in Queries :
        /\ pc = "idle"
        /\ loaded
        /\ call = NoCall
        /\ call' = [op |-> "create_country_map", arg |-> country_name,
                    result |-> create_country_map(country_data, country_name)]
        /\ UNCHANGED <<dataset, loaded, country_data, gemini_api_key, pageVars>>

\* the caller is done with the returned object; sdk is ready for the next call
Drop ==
    /\ pc = "idle"
    /\ call # NoCall
    /\ call' = NoCall
    /\ UNCHANGED <<dataset, loaded, country_data, gemini_api_key, pageVars>>

Next == Construct \/ GetCountryInfo \/ CreateCountryMap \/ Drop

Spec == Init /\ [][Next]_vars

(***************************************************************************)
(* Construction alone, over the full table of entries.                     *)
(***************************************************************************)
LoadInit == InitWith(Entries)

LoadNext == Construct

LoadSpec == LoadInit /\ [][LoadNext]_vars


(***************************************************************************)
(* The page script.  Streamlit runs the script top to bottom on every      *)
(* interaction; a run ends at the bottom ("done"), at st.stop()            *)
(* ("stopped") or at an uncaught exception ("failed").                     *)
(***************************************************************************)
TargetLanguages ==
    <<"Arabic", "English", "Urdu", "Spanish", "French", "German", "Chinese">>

Texts == {<<>>, <<"d">>}

Language == <<"l", "a", "n", "g", "u", "a", "g", "e">>

Questions == {<<>>, <<"L", "a", "n", "g", "u", "a", "g", "e", "?">>, <<"d", "?">>}

\* Python truthiness of what get_country_info returned (a dict of five keys, or None)
Truthy(result) == result.kind = "dict"

PageInit ==
    /\ IsDataset(dataset, PlainEntries, MaxEntries)
    /\ loaded = FALSE
    /\ country_data = <<>>
    /\ call = NoCall
    /\ gemini_api_key \in BOOLEAN
    /\ pc = "start"
    /\ FreshRun

\* lines 11-90: the API key check, then sdk = LanguageMapSDK()
Startup ==
    /\ pc = "start"
    /\ IF ~gemini_api_key
       THEN /\ ui' = ui \cup {"error: GEMINI_API_KEY is not set"}
            /\ pc' = "stopped"                                   \* st.stop()
            /\ UNCHANGED <<loaded, country_data>>
       ELSE /\ country_data' = load_country_data(dataset)
            /\ loaded' = TRUE
            /\ pc' = "col1"
            /\ UNCHANGED ui
    /\ UNCHANGED <<dataset, call, gemini_api_key, country_input, country_info,
                   target_language, exception>>

\* the found branch of col1: the language agent, then the map
FoundBranch(input, agent_ok) ==
    LET shown == ui \cup {"success: Found", "language_agent called"} IN
    IF ~agent_ok
    THEN /\ ui' = shown
         /\ exception' = "Runner.run_sync"
         /\ pc' = "failed"
    ELSE LET country_map == create_country_map(country_data, input) IN
         IF country_map.kind = "raise"
         THEN /\ ui' = shown \cup {"lang_response", "subheader: Map of"}
              /\ exception' = country_map.exc
              /\ pc' = "failed"
         ELSE /\ ui' = shown \cup {"lang_response", "subheader: Map of"}
                         \cup (IF country_map.kind = "Map" THEN {"map"} ELSE {})
              /\ exception' = ""
              /\ pc' = "col2"

\* with col1: the location lookup
Col1 ==
    \E input \in Queries, agent_ok \in BOOLEAN :
        /\ pc = "col1"
        /\ country_input' = input
        /\ IF input = <<>>
           THEN /\ pc' = "col2"
                /\ UNCHANGED <<country_info, ui, exception>>
           ELSE LET result == get_country_info(country_data, input) IN
                IF result.kind = "raise"
                THEN /\ exception' = result.exc
                     /\ pc' = "failed"
                     /\ UNCHANGED <<country_info, ui>>
                ELSE /\ country_info' = <<result>>
                     /\ IF Truthy(result)
                        THEN FoundBranch(input, agent_ok)
                        ELSE /\ ui' = ui \cup {"warning: Location not found"}
                             /\ pc' = "col2"
                             /\ UNCHANGED exception
        /\ UNCHANGED <<dataset, loaded, country_data, call, gemini_api_key,
                       target_language>>

\* the translation panel of col2, drawn when its condition holds
TranslationPanel(choice, text, clicked, translator_ok) ==
    LET default == IF country_info[1].value[1].language = Arabic THEN 1 ELSE 2
        panel == ui \cup {"translation panel"}
    IN  /\ target_language' = TargetLanguages[IF choice = 0 THEN default ELSE choice]
        /\ IF ~clicked
           THEN /\ ui' = panel
                /\ pc' = "ask"
                /\ UNCHANGED exception
           ELSE IF text = <<>>
           THEN /\ ui' = panel \cup {"warning: Please enter text"}
                /\ pc' = "ask"
                /\ UNCHANGED exception
           ELSE IF translator_ok
           THEN /\ ui' = panel \cup {"translator_agent called", "translation"}
                /\ pc' = "ask"
                /\ UNCHANGED exception
           ELSE /\ ui' = panel \cup {"translator_agent called"}
                /\ exception' = "Runner.run_sync"
                /\ pc' = "failed"

\* `country_info and country_input`: the name country_info is read first
PanelCondition_swapped ==
    IF country_info = <<>> THEN "NameError"
    ELSE IF ~Truthy(country_info[1]) THEN "false"
    ELSE IF country_input = <<>> THEN "false"
    ELSE "true"

\* `country_input and country_info`: the name country_info is read only when
\* country_input is truthy; reading it while unassigned is a NameError
PanelCondition ==
    IF country_input = <<>> THEN "false"
    ELSE IF country_info = <<>> THEN "NameError"
    ELSE IF Truthy(country_info[1]) THEN "true"
    ELSE "false"

\* with col2: the translation panel
Col2 ==
    \E choice \in 0..Len(TargetLanguages), text \in Texts,
       clicked \in BOOLEAN, translator_ok \in BOOLEAN :
        /\ pc = "col2"
        /\ CASE PanelCondition = "NameError" ->
                  /\ exception' = "NameError"
                  /\ pc' = "failed"
                  /\ UNCHANGED <<target_language, ui>>
             [] PanelCondition = "true" ->
                  TranslationPanel(choice, text, clicked, translator_ok)
             [] OTHER ->
                  /\ pc' = "ask"
                  /\ UNCHANGED <<target_language, ui, exception>>
        /\ UNCHANGED <<dataset, loaded, country_data, call, gemini_api_key,
                       country_input, country_info>>

\* "Ask the Language Expert"
Ask ==
    \E user_question \in Questions, agent_ok \in BOOLEAN :
        /\ pc = "ask"
        /\ IF user_question = <<>>
           THEN /\ pc' = "done"
                /\ UNCHANGED <<ui, exception>>
           ELSE LET agent == IF Contains(Lower(user_question), Language)
                             THEN "language_agent asked"
                             ELSE "translator_agent asked"
                IN  IF agent_ok
                    THEN /\ ui' = ui \cup {agent, "info: response"}
                         /\ pc' = "done"
                         /\ UNCHANGED exception
                    ELSE /\ ui' = ui \cup {agent}
                         /\ exception' = "Runner.run_sync"
                         /\ pc' = "failed"
        /\ UNCHANGED <<dataset, loaded, country_data, call, gemini_api_key,
                       country_input, country_info, target_language>>

\* the next interaction: Streamlit runs the script again in a fresh namespace
Rerun ==
    /\ pc \in {"done", "stopped", "failed"}
    /\ pc' = "start"
    /\ loaded' = FALSE
    /\ country_data' = <<>>
    /\ country_input' = <<>>
    /\ country_info' = <<>>
    /\ target_language' = ""
    /\ ui' = {}
    /\ exception' = ""
    /\ UNCHANGED <<dataset, call, gemini_api_key>>

PageNext == Startup \/ Col1 \/ Col2 \/ Ask \/ Rerun

PageSpec == PageInit /\ [][PageNext]_vars


(***************************************************************************)
(* Properties.                                                             *)
(***************************************************************************)
\* the rows whose name has q as a literal substring, letter case ignored
LiteralHits(q) ==
    {i \in 1..Len(country_data) : Contains(Lower(country_data[i].name), Lower(q))}

\* the first language code of an entry cannot be resolved to a language name
Unresolvable(e) ==
    \/ ~hasattr(e, "languages")
    \/ e.languages = <<>>
    \/ languages_get(e.languages[1]) = <<>>

\* text is "<name> - Language: <primary_language>" of record r
IsLabelOf(text, r) ==
    LET n == Len(r.name) IN
    /\ Len(text) = n + 13 + Len(r.language)
    /\ SubSeq(text, 1, n) = r.name
    /\ SubSeq(text, n + 1, n + 13)
         = <<" ", "-", " ", "L", "a", "n", "g", "u", "a", "g", "e", ":", " ">>
    /\ SubSeq(text, n + 14, Len(text)) = r.language

\* C1: get_country_info(q) returns the first record in directory order whose
\* name contains q as a case-insensitive literal substring, and returns
\* nothing exactly when no record's name contains q.
C1_FirstLiteralMatch ==
    call.op = "get_country_info" =>
        LET hits == LiteralHits(call.arg) IN
        IF hits = {}
        THEN call.result.kind = "None"
        ELSE /\ call.result.kind = "dict"
             /\ call.result.value
                  = <<country_data[CHOOSE i \in hits : \A j \in hits : i <= j]>>

\* C2: the load drops no entry: the directory has one record per dataset
\* entry, and an entry whose first language code cannot be resolved has a
\* record with language "Unknown".
C2_EveryEntryLoaded ==
    loaded =>
        /\ Len(country_data) = Len(dataset)
        /\ \A i \in 1..Len(dataset) :
               Unresolvable(dataset[i]) => country_data[i].language = Unknown

\* C3: for every directory, the empty one included, and every query string,
\* get_country_info ends with a record or with nothing, never with a raised
\* error.
C3_LookupNeverRaises ==
    call.op = "get_country_info" => call.result.kind \in {"dict", "None"}

\* C4: the marker of a record has the record's latitude and longitude and
\* the label "<name> - Language: <language>", for every record of the
\* directory; create_country_map(q) returns a map exactly when
\* get_country_info(q) returns a record, and the map's one marker is the
\* marker of that record.
C4_MarkerOfLookup ==
    /\ \A i \in 1..Len(country_data) :
           LET r == country_data[i] IN
           /\ Marker(r).location = <<r.latitude, r.longitude>>
           /\ IsLabelOf(Marker(r).popup, r)
    /\ call.op = "create_country_map" =>
           LET found == get_country_info(country_data, call.arg) IN
           /\ call.result.kind = "Map" <=> found.kind = "dict"
           /\ call.result.kind = "Map" =>
                  LET r == found.value[1]
                      markers == call.result.value[1].markers
                  IN  /\ Len(markers) = 1
                      /\ markers[1].location = <<r.latitude, r.longitude>>
                      /\ IsLabelOf(markers[1].popup, r)

\* a map was built for a record that declares its coordinates
C4_Witness ==
    /\ call.op = "create_country_map"
    /\ call.result.kind = "Map"
    /\ call.result.value[1].markers[1].location = <<30, 69>>

\* C5: once the directory is built, no call changes it: every step leaves
\* the records, their order and their field values as they were.
C5_DirectoryReadOnly == [][loaded => country_data' = country_data]_vars

\* a lookup found a record in a directory of several records
C5_Witness ==
    /\ loaded
    /\ Len(country_data) >= 2
    /\ call.op = "get_country_info"
    /\ call.result.kind = "dict"

\* C6: two queries that differ only in letter case get the same result from
\* get_country_info.
C6_CaseInsensitive ==
    call.op = "get_country_info" =>
        \A q \in Queries :
            Lower(q) = Lower(call.arg) =>
                get_country_info(country_data, q) = call.result

\* C7: every record comes from a dataset entry, and records are in the order
\* of their entries: if entry i is before entry j in the dataset and both
\* have a record, the record of i is before the record of j.
C7_OrderPreserved ==
    loaded =>
        /\ \A p \in 1..Len(country_data) :
               \E i \in 1..Len(dataset) : dataset[i].name = country_data[p].name
        /\ \A p, q \in 1..Len(country_data) :
               \A i, j \in 1..Len(dataset) :
                   ( /\ dataset[i].name = country_data[p].name
                     /\ dataset[j].name = country_data[q].name
                     /\ i < j ) => p < q

\* two entries were loaded into two records
C7_Witness ==
    /\ loaded
    /\ Len(dataset) >= 2
    /\ Len(country_data) >= 2

\* C8: on a non-empty directory, get_country_info("") returns the first
\* record of the directory.
C8_EmptyQueryFirstRecord ==
    ( /\ call.op = "get_country_info"
      /\ call.arg = <<>>
      /\ country_data # <<>> ) =>
        /\ call.result.kind = "dict"
        /\ call.result.value = <<country_data[1]>>

\* the empty query was looked up in a directory of several records
C8_Witness ==
    /\ call.op = "get_country_info"
    /\ call.arg = <<>>
    /\ Len(country_data) >= 2

\* C9: a record whose entry declares no latitude (longitude) has latitude
\* (longitude) 0, and a record whose entry declares one carries exactly it.
C9_Coordinates ==
    loaded =>
        \A p \in 1..Len(country_data) :
            \A i \in 1..Len(dataset) :
                dataset[i].name = country_data[p].name =>
                    /\ country_data[p].latitude
                         = IF "latitude" \in DOMAIN dataset[i]
                           THEN dataset[i].latitude ELSE 0
                    /\ country_data[p].longitude
                         = IF "longitude" \in DOMAIN dataset[i]
                           THEN dataset[i].longitude ELSE 0

\* one record from an entry without coordinates, one from an entry with both
C9_Witness ==
    /\ loaded
    /\ Len(country_data) >= 2
    /\ \E i \in 1..Len(dataset) :
           /\ {"latitude", "longitude"} \cap DOMAIN dataset[i] = {}
           /\ \E p \in 1..Len(country_data) : country_data[p].name = dataset[i].name
    /\ \E i \in 1..Len(dataset) :
           /\ {"latitude", "longitude"} \subseteq DOMAIN dataset[i]
           /\ \E p \in 1..Len(country_data) : country_data[p].name = dataset[i].name

====
